---- MODULE Spec2Model ----
(***************************************************************************)
(* Order reconciliation of the lunch ordering app.                         *)
(*                                                                         *)
(* updateOrders (src/redux/Actions.js) turns a snapshot of the user's      *)
(* order docs into the `orders` state that the home screen                 *)
(* (src/screens/main/authenticated/HomeScreen.js) lists.  It is called     *)
(* with the one-shot fetch of getAuthData and with every snapshot the      *)
(* watchOrders listener receives.                                          *)
(*                                                                         *)
(* Beside the reconciliation the module holds the home screen's handlers   *)
(* (pressing and deleting a card), the lunch schedule resolved for the     *)
(* user, the orders collection with the batches of deleteOrder and         *)
(* editOrder, and the loading flag of the actions that await Firebase.     *)
(*                                                                         *)
(* Calendar dates are day numbers; an instant is a tick number, with       *)
(* TicksPerDay ticks in a day.  ISO date strings order as their day        *)
(* numbers do.  constants/Schedule.js and constants/Date.js are not part   *)
(* of the sources at hand: their functions are modelled from the design    *)
(* document and are marked as such where they are defined.                 *)
(***************************************************************************)
EXTENDS Integers, Sequences, FiniteSets, Bags, TLC

\* ---------------------------------------------------------------- bounds
MaxIds == 2
MaxDate == 3
MaxNow == 2
MaxOffset == 2
MaxGroupSize == 2

Ids == 1..MaxIds
Dates == 0..MaxDate

\* a day has two parts: before the cutoff time of day, and from it on
TicksPerDay == Cardinality({"before the cutoff time", "from the cutoff time on"})

VARIABLES
  now,            \* the wall clock, as moment() reads it
  orderSchedule,  \* stateConstants.orderSchedule
  lunchSchedule,  \* stateConstants.lunchSchedule (the user's lunch schedule)
  orders,         \* state.orders: the payload of the last UPDATE_ORDERS
  querySnapshot,  \* the snapshot handed to the last updateOrders call
  calledAt,       \* the clock reading of the last updateOrders call
  ranGroupWalk,   \* whether that call ran the CUSTOM branch (max date, group walk)
  seenIndex,      \* the running index of that call on entering each group
  authDataLoaded, \* getAuthData has fetched and dispatched the orders
  clockReads,     \* what the clock gave at each moment() of the last updateOrders call
  focusedOrder,   \* state.focusedOrder: the id given to the last FOCUS_ORDER, or null
  route,          \* the screen the navigation shows
  alerted,        \* the last press of a card raised the "Cannot edit order" alert
  pressedOrder,   \* the entry of state.orders behind the card pressed last
  user,           \* state.user: null when signed out, else the user's data
  lunchScheduleProp, \* the lunchSchedule prop of the home screen, null before it is connected
  docs,           \* the user's docs of the orders collection in Firestore, by id
  batch,          \* the write batch whose commit is pending, or null
  settled,        \* the batch settled last and its outcome, or null
  loading,        \* state.loading, set by SET_LOADING
  pending,        \* the promises that have not settled yet, a bag of what is awaited
  lastCall,       \* the action called last, or null
  lastSettled,    \* the promise settled last and its outcome, or null
  mounted,        \* the home screen is mounted
  listening,      \* the onSnapshot listener of the home screen is subscribed
  homeLog,        \* what the effect of the home screen has called since its mount, in order
  registered,     \* Firebase Auth has an account for the email
  userDomainsDoc, \* the doc of the account's uid in the userDomains collection, or null
  profiles,       \* the domains in which the user's profile data was written
  signedIn,       \* Firebase Auth has a current user
  signOuts,       \* how many signOut promises started by logOut have not settled
  deleteRequests, \* the arguments deleteFailedUser was called with
  createUserCalls, \* the createUser calls made so far: where each one stands
  authDataCall,   \* the getAuthData call: where it stands, or null
  dispatched,     \* the types of the actions that call has dispatched
  domain          \* state.domain, set by SET_DOMAIN, or null

\* the state of the home screen and its navigation
homeVars == <<focusedOrder, route, alerted, pressedOrder>>

\* the state that the reconciliation and the clock leave alone
\* the user and the lunch schedule resolved for them
selectorVars == <<user, lunchScheduleProp>>

\* the orders collection and the write batch in flight
storeVars == <<docs, batch, settled>>

\* the loading flag and the promises in flight
loadingVars == <<loading, pending, lastCall, lastSettled>>

\* the effect of the home screen and its listener
mountVars == <<mounted, listening, homeLog>>

\* the account, its userDomains doc and the calls that work on them
accountVars == <<registered, userDomainsDoc, profiles, signedIn, signOuts, deleteRequests,
                 createUserCalls, authDataCall, dispatched, domain>>

appVars == <<homeVars, selectorVars, storeVars, loadingVars, mountVars, accountVars>>

vars == <<now, orderSchedule, lunchSchedule, orders, querySnapshot, calledAt,
          ranGroupWalk, seenIndex, authDataLoaded, clockReads, appVars>>

\* null of JavaScript
null == [null |-> TRUE]

\* OrderScheduleTypes of constants/Schedule.js
OrderScheduleTypes == [DAILY |-> "DAILY", CUSTOM |-> "CUSTOM"]

\* ------------------------------------------------------------ sequences
Range(s) == {s[i] : i \in DOMAIN s}

Min(S) == CHOOSE x \in S : \A y \in S : x <= y

Max(S) == CHOOSE x \in S : \A y \in S : x >= y

RECURSIVE SortedSeq(_)
\* the elements of a finite set of integers, ascending
SortedSeq(S) ==
  IF S = {} THEN <<>> ELSE <<Min(S)>> \o SortedSeq(S \ {Min(S)})

\* ------------------------------------------------- constants/Date.js
\* the instant of midnight of an ISO date
parseISO(date) == date * TicksPerDay

\* moment.format(ISO_FORMAT): the ISO date an instant falls on
toISODate(instant) == instant \div TicksPerDay

\* the display form of a date ("Monday, January 5")
toReadable(date) == [readable |-> date]

\* the short display form of a date ("1/5")
toSimple(date) == [simple |-> date]

\* --------------------------------------------- constants/Schedule.js
\* the instant at which ordering for referenceDate closes: the schedule's
\* time of day, offsetDays before the reference date
cutoffInstant(schedule, referenceDate) ==
  (referenceDate - schedule.offsetDays) * TicksPerDay + schedule.cutoffTick

\* a variant of the cutoff test for which ordering is still open at the
\* cutoff instant itself
isBeforeOrAtCutoff(group, schedule, lunch, instant) ==
  instant <= cutoffInstant(schedule, group[1])

\* now is strictly earlier than the cutoff of the group's first date
isBeforeCutoff(group, schedule, lunch, instant) ==
  instant < cutoffInstant(schedule, group[1])

\* the cutoff boundary date of the current cycle, as a moment (midnight):
\* today until today's cutoff time of day, tomorrow from then on
getCutoffDate(schedule, instant) ==
  IF instant < parseISO(toISODate(instant)) + schedule.cutoffTick
    THEN parseISO(toISODate(instant))
    ELSE parseISO(toISODate(instant) + 1)

\* the lunch days that are open for ordering in [from, to], ascending
getLunchSchedule(schedule, lunch, from, to) ==
  SortedSeq({d \in from..to : (d % 7) \in lunch.daysOfWeek /\ d \notin schedule.blackout})

RECURSIVE getFullScheduleGroups(_, _)
\* a variant of the slicing that emits full groups only
getFullScheduleGroups(dates, size) ==
  IF Len(dates) < size THEN <<>>
  ELSE <<SubSeq(dates, 1, size)>> \o getFullScheduleGroups(SubSeq(dates, size + 1, Len(dates)), size)

RECURSIVE getScheduleGroups(_, _)
\* the dates sliced greedily into groups of `size` dates; a trailing
\* partial group is emitted too
getScheduleGroups(dates, size) ==
  IF Len(dates) = 0 THEN <<>>
  ELSE IF Len(dates) <= size THEN <<dates>>
  ELSE <<SubSeq(dates, 1, size)>> \o getScheduleGroups(SubSeq(dates, size + 1, Len(dates)), size)

\* the groups of the window for which no order of `existing` is placed
getValidOrderDates(existing, focused, schedule, lunch, from, to) ==
  SelectSeq(getScheduleGroups(getLunchSchedule(schedule, lunch, from, to), lunch.schedule),
            LAMBDA group : ~ \E k \in DOMAIN existing : existing[k].date \in Range(group))

\* ------------------------------------------- redux/Actions.js, updateOrders
\* a variant of line 532 that drops the docs of the cutoff date itself
isAfterCutoff(date, cutoffDate) == parseISO(date) > cutoffDate

\* line 532: a doc is kept when its date is the same as or after the cutoff date
isSameOrAfterCutoff(date, cutoffDate) == parseISO(date) >= cutoffDate

\* lines 527-535: the kept docs by id, each with its id as key (uid removed)
collectionData(snapshot, cutoffDate) ==
  [id \in {k \in DOMAIN snapshot : isSameOrAfterCutoff(snapshot[k].date, cutoffDate)} |->
     [key |-> id, date |-> snapshot[id].date]]

\* lines 538, 545 and 552: moment.max over the dates of all docs of the
\* snapshot, as an ISO date; moment.max of no moments is the current moment
maxSnapshotDate(snapshot, instant) ==
  IF DOMAIN snapshot = {} THEN toISODate(instant)
  ELSE toISODate(Max({parseISO(snapshot[k].date) : k \in DOMAIN snapshot}))

\* lines 539-546: the groups from today to the latest order that have no order
availableScheduleGroups(data, schedule, lunch, instant, snapshot) ==
  getValidOrderDates(data, "null", schedule, lunch,
                     toISODate(instant), maxSnapshotDate(snapshot, instant))

\* lines 547-555: all groups from today to the latest order
allScheduleGroups(schedule, lunch, instant, snapshot) ==
  getScheduleGroups(
    getLunchSchedule(schedule, lunch, toISODate(instant), maxSnapshotDate(snapshot, instant)),
    lunch.schedule)

\* a variant of lines 556-557 with the cutoff test the wrong way round
includesCutoffInverted(available, schedule, lunch, instant) ==
  Len(available) > 0 /\ isBeforeCutoff(available[1], schedule, lunch, instant)

\* lines 556-557
includesCutoff(available, schedule, lunch, instant) ==
  Len(available) > 0 /\ ~ isBeforeCutoff(available[1], schedule, lunch, instant)

\* line 559: where the running index starts
startIndex(cutoffIncluded) == IF cutoffIncluded THEN 0 - 1 ELSE 0

\* line 562: the group starts on the first date of an available group
isAvailableGroup(available, group) ==
  \E a \in DOMAIN available : available[a][1] = group[1]

\* line 558: Object.keys(collectionData), in the order the docs were read
collectionDataKeys(data) == SortedSeq(DOMAIN data)

\* a variant of line 565 that matches the group's first date only
relevantKeysOfFirstDate(data, group) ==
  SelectSeq(collectionDataKeys(data), LAMBDA key : data[key].date = group[1])

\* line 565: the ids of the kept docs whose date is one of the group's dates
relevantKeys(data, group) ==
  SelectSeq(collectionDataKeys(data), LAMBDA key : data[key].date \in Range(group))

\* a variant of lines 567-573 whose date list holds the ordered dates only
groupOrderOfOrderedDates(data, group, i, index, keys) ==
  [date |-> SortedSeq({data[k].date : k \in Range(keys)}),
   key |-> i, index |-> index, keys |-> keys,
   byDate |-> [d \in {data[k].date : k \in Range(keys)} |->
                 data[Max({k \in Range(keys) : data[k].date = d})]]]

\* lines 567-573: the entry of a group with orders.  The source spreads the
\* dated docs into the entry itself, beside date, key, index and keys; byDate
\* holds those properties.  A later doc of the same date overwrites an earlier one.
groupOrder(data, group, i, index, keys) ==
  [date |-> group, key |-> i, index |-> index, keys |-> keys,
   byDate |-> [d \in {data[k].date : k \in Range(keys)} |->
                 data[Max({k \in Range(keys) : data[k].date = d})]]]

RECURSIVE walkGroupsCounting(_, _, _, _, _, _)
\* a variant of lines 560-576 in which a group with orders advances the
\* index as well
walkGroupsCounting(groups, available, data, i, index, acc) ==
  IF i > Len(groups) THEN acc
  ELSE LET keys == relevantKeys(data, groups[i]) IN
    walkGroupsCounting(groups, available, data, i + 1, index + 1,
      [orders |-> IF ~ isAvailableGroup(available, groups[i]) /\ Len(keys) > 0
                    THEN acc.orders @@ ((i - 1) :> groupOrder(data, groups[i], i - 1, index, keys))
                    ELSE acc.orders,
       seen |-> Append(acc.seen, index)])

RECURSIVE walkGroups(_, _, _, _, _, _)
\* lines 560-576: allScheduleGroups.forEach from position i (1-based here, the
\* entries are keyed from 0 as in the source).  seen records the value of
\* `index` on entering each group.
walkGroups(groups, available, data, i, index, acc) ==
  IF i > Len(groups) THEN acc
  ELSE IF isAvailableGroup(available, groups[i])
    THEN walkGroups(groups, available, data, i + 1, index + 1,
                    [acc EXCEPT !.seen = Append(@, index)])
    ELSE LET keys == relevantKeys(data, groups[i]) IN
      walkGroups(groups, available, data, i + 1, index,
        [orders |-> IF Len(keys) > 0
                      THEN acc.orders @@ ((i - 1) :> groupOrder(data, groups[i], i - 1, index, keys))
                      ELSE acc.orders,
         seen |-> Append(acc.seen, index)])

\* a variant of line 537 without the test of the schedule type
isGroupedUpdateOfAnyType(schedule, data) == Cardinality(DOMAIN data) > 0

\* a variant of line 537 without the test for kept docs
isGroupedUpdateUnguarded(schedule, data) ==
  schedule.scheduleType = OrderScheduleTypes.CUSTOM

\* line 537: the CUSTOM branch is taken only with at least one kept doc
isGroupedUpdate(schedule, data) ==
  schedule.scheduleType = OrderScheduleTypes.CUSTOM /\ Cardinality(DOMAIN data) > 0

\* lines 526-584.  orders is the payload; walked and seen expose whether the
\* CUSTOM branch ran and the running index at each group.  The function takes
\* no time: it reads the clock itself, in getCutoffDate (line 528), at lines
\* 544 and 551 and in isBeforeCutoff (line 557); reads holds what the clock
\* gave at each of the four.
updateOrdersAt(snapshot, schedule, lunch, reads) ==
  LET data == collectionData(snapshot, getCutoffDate(schedule, reads[1])) IN
  IF isGroupedUpdate(schedule, data)
    THEN LET available == availableScheduleGroups(data, schedule, lunch, reads[2], snapshot)
             groups == allScheduleGroups(schedule, lunch, reads[3], snapshot)
             walk == walkGroups(groups, available, data, 1,
                                startIndex(includesCutoff(available, schedule, lunch, reads[4])),
                                [orders |-> <<>>, seen |-> <<>>])
         IN [orders |-> walk.orders, walked |-> TRUE, seen |-> walk.seen]
    ELSE [orders |-> data, walked |-> FALSE, seen |-> <<>>]

\* a call during which the clock does not move
updateOrders(snapshot, schedule, lunch, instant) ==
  updateOrdersAt(snapshot, schedule, lunch, <<instant, instant, instant, instant>>)

\* ------------------------------- screens/main/authenticated/HomeScreen.js
\* Array.prototype.sort with the comparator parseISO(a.date).diff(b.date):
\* a stable sort, ascending by date
insertByDate(sorted, order) ==
  LET n == Cardinality({i \in DOMAIN sorted : sorted[i].date <= order.date})
  IN SubSeq(sorted, 1, n) \o <<order>> \o SubSeq(sorted, n + 1, Len(sorted))

\* a variant of the sort that leaves the list as Object.values gave it
keepOrder(list) == list

RECURSIVE sortByDate(_)
sortByDate(list) ==
  IF Len(list) = 0 THEN <<>>
  ELSE insertByDate(sortByDate(SubSeq(list, 1, Len(list) - 1)), list[Len(list)])

\* line 147: the same sort with the comparator on date[0], the group's first date
insertByFirstDate(sorted, group) ==
  LET n == Cardinality({i \in DOMAIN sorted : sorted[i].date[1] <= group.date[1]})
  IN SubSeq(sorted, 1, n) \o <<group>> \o SubSeq(sorted, n + 1, Len(sorted))

RECURSIVE sortByFirstDate(_)
sortByFirstDate(list) ==
  IF Len(list) = 0 THEN <<>>
  ELSE insertByFirstDate(sortByFirstDate(SubSeq(list, 1, Len(list) - 1)), list[Len(list)])

\* Object.values of an object whose keys are the integers of S or doc ids
objectValues(object) ==
  [n \in 1..Cardinality(DOMAIN object) |-> object[SortedSeq(DOMAIN object)[n]]]

\* lines 148-155: the data of a list item.  The rest of the destructuring
\* { date, key, keys, multipleOrders, ...orderGroups } holds the dated docs and
\* index as well; index is a number, has no date, and is mapped to an entry
\* with an invalid date, kept here at the head of the list.
groupData(group) ==
  <<[date |-> toReadable("undefined")]>>
  \o [n \in 1..Cardinality(DOMAIN group.byDate) |->
        [key |-> sortByDate(objectValues(group.byDate))[n].key,
         date |-> toReadable(sortByDate(objectValues(group.byDate))[n].date)]]

\* lines 140-157
getOrdersArr(state, dynamicSchedule) ==
  IF ~ dynamicSchedule
    THEN [n \in 1..Cardinality(DOMAIN state) |->
            [key |-> sortByDate(objectValues(state))[n].key,
             date |-> toReadable(sortByDate(objectValues(state))[n].date)]]
    ELSE [n \in 1..Cardinality(DOMAIN state) |->
            LET group == sortByFirstDate(objectValues(state))[n] IN
            [date |-> [from |-> toSimple(group.date[1]),
                       to |-> toSimple(group.date[Len(group.date)])],
             key |-> group.key,
             keys |-> group.keys,
             data |-> groupData(group)]]

\* lines 159-160: the orders prop of the home screen
ordersProp ==
  getOrdersArr(orders, orderSchedule.scheduleType = OrderScheduleTypes.CUSTOM)

\* ------------------------------------------------------------- the system
\* the order docs a snapshot may hold: any docs with any dates (createOrder
\* writes a fresh doc for whatever date it is given)
Snapshots ==
  UNION {[S -> [date : Dates]] : S \in SUBSET Ids}

OrderSchedules ==
  [scheduleType : {OrderScheduleTypes.DAILY, OrderScheduleTypes.CUSTOM},
   cutoffTick : {TicksPerDay - 1},
   offsetDays : 0..MaxOffset,
   blackout : {{}}]

LunchSchedules ==
  [dependent : {FALSE},
   daysOfWeek : {(0..6) \ {3}},
   schedule : 1..MaxGroupSize]

\* the configurations of a session.  A DAILY schedule uses neither the
\* offset nor the lunch schedule, so one of each stands for all.
Configurations ==
  {c \in OrderSchedules \X LunchSchedules :
     c[1].scheduleType = OrderScheduleTypes.DAILY =>
       (c[1].offsetDays = 0 /\ c[2].schedule = 1 /\ c[2].daysOfWeek = (0..6) \ {3})}

\* nobody has an account yet and nothing was called
NoAccount ==
  /\ registered = FALSE
  /\ userDomainsDoc = null
  /\ profiles = {}
  /\ signedIn = FALSE
  /\ signOuts = 0
  /\ deleteRequests = {}
  /\ createUserCalls = <<>>
  /\ authDataCall = null
  /\ dispatched = {}
  /\ domain = null

\* the state after construction, but for the account
EngineInit ==
  /\ now = 0
  /\ \E configuration \in Configurations :
       /\ orderSchedule = configuration[1]
       /\ lunchSchedule = configuration[2]
  /\ orders = <<>>
  /\ querySnapshot = <<>>
  /\ calledAt = 0
  /\ ranGroupWalk = FALSE
  /\ seenIndex = <<>>
  /\ authDataLoaded = FALSE
  /\ clockReads = <<>>
  /\ focusedOrder = null
  /\ route = "Home"
  /\ alerted = FALSE
  /\ pressedOrder = null
  /\ user = null
  /\ lunchScheduleProp = null
  /\ docs = <<>>
  /\ batch = null
  /\ settled = null
  /\ loading = FALSE
  /\ pending = EmptyBag
  /\ lastCall = null
  /\ lastSettled = null
  /\ mounted = FALSE
  /\ listening = FALSE
  /\ homeLog = <<>>

Init == EngineInit /\ NoAccount

\* the clock advances; it counts from the moment the app has loaded its data
Tick ==
  /\ authDataLoaded
  /\ now < MaxNow
  /\ now' = now + 1
  /\ UNCHANGED <<orderSchedule, lunchSchedule, orders, querySnapshot, calledAt,
                 ranGroupWalk, seenIndex, authDataLoaded, clockReads, appVars>>

\* a variant of the dispatch that merges the payload into the orders held
dispatchMergedOrders(snapshot, schedule, lunch) ==
  \E update \in {updateOrders(snapshot, schedule, lunch, now)} :
  /\ orders' = update.orders @@ orders
  /\ ranGroupWalk' = update.walked
  /\ seenIndex' = update.seen
  /\ querySnapshot' = snapshot
  /\ calledAt' = now
  /\ clockReads' = <<now, now, now, now>>

\* dispatch(updateOrders(snapshot, ...)) and the reducer taking the payload
dispatchUpdateOrders(snapshot, schedule, lunch) ==
  \E update \in {updateOrders(snapshot, schedule, lunch, now)} :
  /\ orders' = update.orders
  /\ ranGroupWalk' = update.walked
  /\ seenIndex' = update.seen
  /\ querySnapshot' = snapshot
  /\ calledAt' = now
  /\ clockReads' = <<now, now, now, now>>

\* Actions.js 893-900: the one-shot fetch of the orders, then the dispatch
getAuthData ==
  \E ordersSnapshot \in Snapshots :
    /\ ~ authDataLoaded
    /\ dispatchUpdateOrders(ordersSnapshot, orderSchedule, lunchSchedule)
    /\ authDataLoaded' = TRUE
    /\ UNCHANGED <<now, orderSchedule, lunchSchedule, appVars>>

\* the listener is called once for every change of the collection: the new
\* snapshot differs from the last one in one doc (added, removed or rewritten)
NextSnapshots(last) ==
  {[k \in DOMAIN last \ {id} |-> last[k]] : id \in DOMAIN last}
  \cup {[k \in DOMAIN last \cup {w[1]} |-> IF k = w[1] THEN [date |-> w[2]] ELSE last[k]] :
          w \in Ids \X Dates}

\* Actions.js 695-700: the listener's snapshot callback
watchOrders ==
  \E snapshot \in NextSnapshots(querySnapshot) :
    /\ authDataLoaded
    /\ dispatchUpdateOrders(snapshot, orderSchedule, lunchSchedule)
    /\ UNCHANGED authDataLoaded
    /\ UNCHANGED <<now, orderSchedule, lunchSchedule, appVars>>

Next == Tick \/ getAuthData \/ watchOrders

Spec == Init /\ [][Next]_vars

\* ------------------------------------------------ what the claims speak of
Dispatched == authDataLoaded

IsCustom == orderSchedule.scheduleType = "CUSTOM"

IsDaily == orderSchedule.scheduleType = "DAILY"

\* the date getCutoffDate returned to the last call
CutoffDay == toISODate(getCutoffDate(orderSchedule, calledAt))

\* the docs of the last snapshot dated on or after the cutoff date
Survivors == {id \in DOMAIN querySnapshot : querySnapshot[id].date >= CutoffDay}

\* the docs of the last snapshot dated before the cutoff date
Stale == DOMAIN querySnapshot \ Survivors

\* the last date of the last snapshot
LatestDay == Max({querySnapshot[id].date : id \in DOMAIN querySnapshot})

\* the groups of the window of the last call: from its day to the latest order
Groups ==
  IF DOMAIN querySnapshot = {} THEN <<>>
  ELSE getScheduleGroups(
         getLunchSchedule(orderSchedule, lunchSchedule, toISODate(calledAt), LatestDay),
         lunchSchedule.schedule)

\* the positions (from 1) of the group a date belongs to
GroupsOf(date) == {g \in DOMAIN Groups : date \in Range(Groups[g])}

\* the surviving docs of a group
Placed(g) == {id \in Survivors : querySnapshot[id].date \in Range(Groups[g])}

\* the groups with no surviving doc, and those with one
Unclaimed == {g \in DOMAIN Groups : Placed(g) = {}}

Claimed == DOMAIN Groups \ Unclaimed

\* the surviving docs that belong to no group
Orphans == {id \in Survivors : GroupsOf(querySnapshot[id].date) = {}}

\* the cutoff of a group had passed at the last call
CutoffPassed(g) == calledAt >= cutoffInstant(orderSchedule, Groups[g][1])

\* the payload holds group entries
IsGrouped == IsCustom /\ Survivors # {}

\* the doc ids that appear in the payload, as a record or in a group's keys
IdsOf(entry) ==
  IF "keys" \in DOMAIN entry
    THEN Range(entry.keys) \cup {entry.byDate[d].key : d \in DOMAIN entry.byDate}
    ELSE {entry.key}

KeptIds == UNION {IdsOf(orders[k]) : k \in DOMAIN orders}

\* a snapshot without some of its docs
Without(snapshot, ids) == [k \in DOMAIN snapshot \ ids |-> snapshot[k]]

\* ------------------------------------------------------------------ claims

\* C1 (as stated): updateOrders keeps a record iff its date is the same as or
\* after the cutoff date, for either schedule type; a stale record appears
\* nowhere in the orders and has no influence on them.
C1_AsStated ==
  Dispatched =>
    /\ KeptIds = Survivors
    /\ orders = updateOrders(Without(querySnapshot, Stale), orderSchedule,
                             lunchSchedule, calledAt).orders

\* C1 (amended): updateOrders keeps a record iff its date is the same as or
\* after the cutoff date and, for a CUSTOM schedule, is one of the dates of a
\* group of allScheduleGroups; a record dated before the cutoff date appears
\* nowhere in the orders (as a record or in a group's keys) and has no
\* influence on them.
C1_KeepsSurvivors ==
  Dispatched =>
    /\ KeptIds = (IF IsCustom THEN Survivors \ Orphans ELSE Survivors)
    /\ orders = updateOrders(Without(querySnapshot, Stale), orderSchedule,
                             lunchSchedule, calledAt).orders

\* C1 witness: a CUSTOM update of a snapshot with a stale doc and a doc dated
\* on the cutoff date itself, which is kept
C1_Witness ==
  /\ Dispatched /\ IsCustom
  /\ Stale # {}
  /\ \E id \in KeptIds : querySnapshot[id].date = CutoffDay

\* C2: for a DAILY schedule the orders are exactly the surviving records, one
\* entry per record under its own id, with no grouping, index or merging, after
\* any sequence of snapshots.
C2_DailyIdentity ==
  (Dispatched /\ IsDaily) =>
    orders = [id \in Survivors |-> [key |-> id, date |-> querySnapshot[id].date]]

\* C2 witness: a DAILY update by the listener of a snapshot with a stale doc
\* and a surviving doc, which is the one entry of the orders
C2_Witness ==
  /\ Dispatched /\ IsDaily /\ calledAt > 0
  /\ Stale # {} /\ Survivors # {}
  /\ Cardinality(DOMAIN orders) = 1

\* the ids in the keys of the entry of group g (none without an entry)
KeysOf(g) == IF (g - 1) \in DOMAIN orders THEN Range(orders[g - 1].keys) ELSE {}

\* C3 (as stated): for a CUSTOM schedule every surviving record whose date
\* belongs to a group appears in that group's keys and under its date in that
\* group; no record is lost and no id appears in two groups.
C3_AsStated ==
  (Dispatched /\ IsGrouped) =>
    /\ \A g \in DOMAIN Groups : KeysOf(g) = Placed(g)
    /\ \A g \in Claimed : \A id \in Placed(g) :
         /\ querySnapshot[id].date \in DOMAIN orders[g - 1].byDate
         /\ orders[g - 1].byDate[querySnapshot[id].date].key = id
    /\ \A g, h \in DOMAIN Groups : g # h => KeysOf(g) \cap KeysOf(h) = {}

\* C3 (amended): for a CUSTOM schedule every surviving record whose date
\* belongs to a group appears in that group's keys, once, and the group holds
\* under each such date the record of that date whose id comes last; the keys
\* hold nothing else, there is an entry for exactly the groups with a surviving
\* record, and no id appears in two groups.
C3_KeysAreThePlacedRecords ==
  (Dispatched /\ IsGrouped) =>
    /\ DOMAIN orders = {g - 1 : g \in Claimed}
    /\ \A g \in Claimed :
         /\ KeysOf(g) = Placed(g)
         /\ Len(orders[g - 1].keys) = Cardinality(Placed(g))
         /\ DOMAIN orders[g - 1].byDate = {querySnapshot[id].date : id \in Placed(g)}
         /\ \A id \in Placed(g) :
              LET date == querySnapshot[id].date IN
              orders[g - 1].byDate[date] =
                [key |-> Max({k \in Placed(g) : querySnapshot[k].date = date}), date |-> date]
    /\ \A g, h \in DOMAIN Groups : g # h => KeysOf(g) \cap KeysOf(h) = {}

\* C3 witness: a group of two dates with two records of one of its dates
C3_Witness ==
  /\ Dispatched /\ IsGrouped
  /\ \E g \in Claimed :
       /\ Len(Groups[g]) = 2
       /\ \E a, b \in Placed(g) : a # b /\ querySnapshot[a].date = querySnapshot[b].date

\* the first group with no surviving record
FirstUnclaimed == Min(Unclaimed)

\* the value of the running index on reaching group g: the groups with no
\* record before it, less one when the first of all such groups is past its cutoff
RunningIndex(g) ==
  Cardinality({h \in Unclaimed : h < g})
    - (IF Unclaimed # {} /\ CutoffPassed(FirstUnclaimed) THEN 1 ELSE 0)

\* C4 (as stated): a claimed group is never assigned a non-negative
\* availability index.
C4_AsStated ==
  (Dispatched /\ IsGrouped) => \A k \in DOMAIN orders : orders[k].index < 0

\* C4 (amended): a claimed group does not advance the counter and carries its
\* current value as index; that index is never below -1, and it is negative
\* only when the first group with no record is no longer before its cutoff
\* and no group with no record precedes the claimed group.
C4_ClaimedIndexFloor ==
  (Dispatched /\ IsGrouped) =>
    \A k \in DOMAIN orders :
      /\ orders[k].index = RunningIndex(k + 1)
      /\ orders[k].index >= 0 - 1
      /\ orders[k].index < 0 =>
           /\ Unclaimed # {} /\ CutoffPassed(FirstUnclaimed)
           /\ ~ \E h \in Unclaimed : h < k + 1

\* C4 witness: a claimed group with a negative index and one with a non-negative index
C4_Witness ==
  /\ Dispatched /\ IsGrouped
  /\ \E k \in DOMAIN orders : orders[k].index < 0
  /\ \E k \in DOMAIN orders : orders[k].index >= 0

\* the next group after g with no record whose cutoff is still open
NextOpen(g) == {h \in Unclaimed : h > g /\ ~ CutoffPassed(h)}

\* C5 (as stated): a surviving record on any of a group's dates claims the
\* whole group (the entry carries the group's full date list), and the next
\* group with no record whose cutoff is still open receives index 0.
C5_AsStated ==
  (Dispatched /\ IsGrouped) =>
    \A g \in Claimed :
      /\ orders[g - 1].date = Groups[g]
      /\ NextOpen(g) # {} => seenIndex[Min(NextOpen(g))] = 0

\* C5 (amended): a surviving record on any of a group's dates claims the whole
\* group (the entry carries the group's full date list), and the next group
\* with no record whose cutoff is still open receives index 0 when no group
\* without a record precedes it, and the running index otherwise.
C5_PartialRecordClaimsGroup ==
  (Dispatched /\ IsGrouped) =>
    /\ Len(seenIndex) = Len(Groups)
    /\ \A g \in Claimed :
         /\ orders[g - 1].date = Groups[g]
         /\ (NextOpen(g) # {} /\ Min(NextOpen(g)) = FirstUnclaimed)
              => seenIndex[Min(NextOpen(g))] = 0
         /\ NextOpen(g) # {}
              => seenIndex[Min(NextOpen(g))] = RunningIndex(Min(NextOpen(g)))

\* C5 witness: a group of two dates claimed by a record on one of them,
\* followed by the first group with no record, whose cutoff is open
C5_Witness ==
  /\ Dispatched /\ IsGrouped
  /\ \E g \in Claimed :
       /\ Len(Groups[g]) = 2
       /\ {querySnapshot[id].date : id \in Placed(g)} # Range(Groups[g])
       /\ NextOpen(g) # {}
       /\ Min(NextOpen(g)) = FirstUnclaimed

\* C6: a group with no record whose cutoff has passed receives index -1; the
\* counter starts at -1 exactly when the first group with no record is no
\* longer before its cutoff, and at 0 otherwise.
C6_PastCutoffGetsMinusOne ==
  (Dispatched /\ IsGrouped) =>
    /\ \A g \in Unclaimed : CutoffPassed(g) => seenIndex[g] = 0 - 1
    /\ Groups # <<>> =>
         seenIndex[1] = (IF Unclaimed # {} /\ CutoffPassed(FirstUnclaimed) THEN 0 - 1 ELSE 0)

\* the entries of a list item's data that are order records
RecordsOf(item) == SelectSeq(item.data, LAMBDA entry : "key" \in DOMAIN entry)

\* C7: the list handed to the home screen is in ascending order of date: for
\* DAILY by the orders' dates, for CUSTOM by the groups' first dates, which is
\* the order of allScheduleGroups, with the records of a group in ascending
\* date order, for every snapshot.
C7_ListIsInDateOrder ==
  Dispatched =>
    /\ Len(ordersProp) = Cardinality(DOMAIN orders)
    /\ IsDaily =>
         /\ {ordersProp[n].key : n \in DOMAIN ordersProp} = Survivors
         /\ \A m, n \in DOMAIN ordersProp :
              m < n => ordersProp[m].date.readable <= ordersProp[n].date.readable
    /\ IsGrouped =>
         /\ \A n \in DOMAIN ordersProp :
              /\ ordersProp[n].key + 1 \in Claimed
              /\ ordersProp[n].date.from = toSimple(Groups[ordersProp[n].key + 1][1])
              /\ {RecordsOf(ordersProp[n])[r].key : r \in DOMAIN RecordsOf(ordersProp[n])}
                   \subseteq Placed(ordersProp[n].key + 1)
              /\ \A q, r \in DOMAIN RecordsOf(ordersProp[n]) :
                   q < r => RecordsOf(ordersProp[n])[q].date.readable
                              < RecordsOf(ordersProp[n])[r].date.readable
         /\ \A m, n \in DOMAIN ordersProp :
              m < n => /\ ordersProp[m].key < ordersProp[n].key
                       /\ ordersProp[m].date.from.simple < ordersProp[n].date.from.simple

\* C7 witness (CUSTOM): a group listed with two records whose ids are not in
\* date order
C7_Witness ==
  /\ Dispatched /\ IsGrouped
  /\ \E n \in DOMAIN ordersProp : \E a, b \in Range(ordersProp[n].keys) :
       a < b /\ querySnapshot[a].date > querySnapshot[b].date

\* the index and keys of every entry of a payload
IndexAndKeys(payload) == [k \in DOMAIN payload |-> <<payload[k].index, payload[k].keys>>]

\* C8: a surviving record whose date matches no group is ignored by the
\* reconciliation: it appears in no output group, it does not change the
\* index or keys of any other group, and it produces no error.
C8_OrphanIsIgnored ==
  (Dispatched /\ IsGrouped) =>
    \A id \in Orphans :
      /\ id \notin KeptIds
      /\ IndexAndKeys(orders) =
           IndexAndKeys(updateOrders(Without(querySnapshot, {id}), orderSchedule,
                                     lunchSchedule, calledAt).orders)

\* C9: an empty snapshot, or one in which every record is stale, gives empty
\* orders for both schedule types, and the CUSTOM group walk and the maximum
\* date computation are not run on an empty set of surviving records.
C9_NoSurvivorsNoOrders ==
  (Dispatched /\ Survivors = {}) => (orders = <<>> /\ ~ ranGroupWalk)

\* C9 witness: a CUSTOM update by the listener of a snapshot of stale records only
C9_Witness ==
  /\ Dispatched /\ IsCustom /\ calledAt > 0
  /\ Survivors = {} /\ Stale # {}

LiveSpec == Spec /\ WF_vars(Tick)

\* the orders held are not what updateOrders gives for the last snapshot now
OrdersOutOfDate ==
  /\ Dispatched
  /\ orders # updateOrders(querySnapshot, orderSchedule, lunchSchedule, now).orders

\* C11: while the home screen is open, once the clock has crossed midnight or
\* a cutoff the orders are eventually recomputed for the new date, even if no
\* new snapshot arrives: orders that the passing of time has made out of date
\* do not stay so.
C11_RecomputedAfterClockChange == OrdersOutOfDate ~> ~ OrdersOutOfDate

\* ------------------------------------------------------------ C12, C13
\* what the four moment() reads of one updateOrders call can give when the
\* call is made at `from`: the first read gives `from`, the clock does not go
\* back, and it may pass one tick (the cutoff time, or midnight) between any
\* two of the reads
ClockReads(from) ==
  {reads \in [1..4 -> {from, from + 1}] :
     /\ reads[1] = from
     /\ \A i \in 1..3 : reads[i] <= reads[i + 1]
     /\ reads[4] <= MaxNow}

\* dispatch(updateOrders(snapshot, ...)) with the clock as it runs during the call
dispatchUpdateOrdersAt(snapshot, schedule, lunch, reads) ==
  \E update \in {updateOrdersAt(snapshot, schedule, lunch, reads)} :
  /\ orders' = update.orders
  /\ ranGroupWalk' = update.walked
  /\ seenIndex' = update.seen
  /\ querySnapshot' = snapshot
  /\ calledAt' = now
  /\ clockReads' = reads
  /\ now' = reads[4]

\* Actions.js 893-900 with the clock running
getAuthDataClocked ==
  \E ordersSnapshot \in Snapshots, reads \in ClockReads(now) :
    /\ ~ authDataLoaded
    /\ dispatchUpdateOrdersAt(ordersSnapshot, orderSchedule, lunchSchedule, reads)
    /\ authDataLoaded' = TRUE
    /\ UNCHANGED <<orderSchedule, lunchSchedule, appVars>>

\* Actions.js 695-700 with the clock running
watchOrdersClocked ==
  \E snapshot \in NextSnapshots(querySnapshot), reads \in ClockReads(now) :
    /\ authDataLoaded
    /\ dispatchUpdateOrdersAt(snapshot, orderSchedule, lunchSchedule, reads)
    /\ UNCHANGED <<authDataLoaded, orderSchedule, lunchSchedule, appVars>>

ClockNext == Tick \/ getAuthDataClocked \/ watchOrdersClocked

ClockSpec == Init /\ [][ClockNext]_vars

\* C12: the reconciliation is deterministic in its arguments and the current
\* time of the call: the output of a call is the output for its snapshot, its
\* configuration and the instant at which it was made, whenever it runs.
C12_SameNowSameOutput ==
  Dispatched =>
    orders = updateOrders(querySnapshot, orderSchedule, lunchSchedule, calledAt).orders

\* the kept docs, the available groups and the groups of the last call, from
\* what the clock gave it
LastData == collectionData(querySnapshot, getCutoffDate(orderSchedule, clockReads[1]))

LastAvailable ==
  availableScheduleGroups(LastData, orderSchedule, lunchSchedule, clockReads[2], querySnapshot)

LastGroups == allScheduleGroups(orderSchedule, lunchSchedule, clockReads[3], querySnapshot)

\* C13: within one updateOrders call on a CUSTOM schedule the cutoff date, the
\* available groups, the full group list and the cutoff test are evaluated
\* for the same instant and the same window, so every available group is
\* also a group of allScheduleGroups.
C13_AvailableGroupsAreGroups ==
  (Dispatched /\ ranGroupWalk) =>
    \A a \in DOMAIN LastAvailable : LastAvailable[a] \in Range(LastGroups)

\* ------------------------------------------------------------------ C14
\* Actions.js 303-306: FOCUS_ORDER carries id.toString()
focusOrder(id) == [string |-> id]

\* a property of a list item as JavaScript reads it: the set holding its
\* value, or the empty set when the item has no such property (undefined)
itemProperty(item, name) == IF name \in DOMAIN item THEN {item[name]} ELSE {}

\* HomeScreen.js line 66: `index && index < 0`; undefined and 0 are falsy
isTooLate(index) == \E i \in index : i # 0 /\ i < 0

\* HomeScreen.js line 117: the third argument of onPress is item.index, read
\* from the item that getOrdersArr built (lines 144, 148-156)
indexOfItem(item) == itemProperty(item, "index")

\* HomeScreen.js lines 65-76 called from the card's onPress (line 117) with
\* item.key, !!item.title and item.index
focusOrderNavigate(item, dynamicMenu) ==
  /\ pressedOrder' = orders[item.key]
  /\ IF isTooLate(indexOfItem(item))
       THEN /\ alerted' = TRUE
            /\ UNCHANGED <<focusedOrder, route>>
       ELSE /\ alerted' = FALSE
            /\ focusedOrder' = focusOrder(item.key)
            /\ route' = IF itemProperty(item, "title") # {} /\ ~ dynamicMenu
                          THEN "Preset Order" ELSE "Custom Order"

\* the user presses a card of the list of the home screen
pressCard ==
  \E n \in DOMAIN ordersProp, dynamicMenu \in BOOLEAN :
    /\ route = "Home"
    /\ focusOrderNavigate(ordersProp[n], dynamicMenu)
    /\ UNCHANGED <<now, orderSchedule, lunchSchedule, orders, querySnapshot, calledAt,
                   ranGroupWalk, seenIndex, authDataLoaded, clockReads,
                   selectorVars, storeVars, loadingVars, mountVars, accountVars>>

\* the user comes back from the order screen; HomeScreen.js line 94 unfocuses
\* the order when the home screen gets the focus
goBack ==
  /\ route # "Home"
  /\ route' = "Home"
  /\ focusedOrder' = null
  /\ UNCHANGED <<alerted, pressedOrder>>
  /\ UNCHANGED <<now, orderSchedule, lunchSchedule, orders, querySnapshot, calledAt,
                 ranGroupWalk, seenIndex, authDataLoaded, clockReads,
                 selectorVars, storeVars, loadingVars, mountVars, accountVars>>

HomeNext == Tick \/ getAuthData \/ watchOrders \/ pressCard \/ goBack

HomeSpec == Init /\ [][HomeNext]_vars

\* the card pressed last stands for an order whose reconciled index is negative
PressedTooLate ==
  /\ pressedOrder # null
  /\ isTooLate(itemProperty(pressedOrder, "index"))

\* C14: pressing the card of an order or order group whose reconciled index
\* is negative shows the too-late alert, focuses no order and navigates
\* nowhere; pressing one whose index is non-negative or absent focuses it
\* and opens the order screen.
C14_NegativeIndexIsNotOpened ==
  [][pressCard =>
       IF PressedTooLate'
         THEN alerted' /\ focusedOrder' = focusedOrder /\ route' = route
         ELSE ~ alerted' /\ focusedOrder' # null /\ route' # "Home"]_vars

\* ------------------------------------------------------------------ C15
\* the values of the user attribute that a dependent lunch schedule is keyed
\* by, and the values a user may have
KeyedSites == {"siteA", "siteB"}

UserSites == KeyedSites \cup {"siteC"}

\* state.user: null when signed out; the data of a user may lack the attribute
Users == {null, << >>} \cup [site : UserSites]

\* a dependent lunch schedule: a sub-config for some of the attribute values
DependentLunchSchedules ==
  UNION {[dependent : {TRUE}, byAttribute : [S -> LunchSchedules]] : S \in SUBSET KeyedSites}

\* Actions.js 869-879: the lunchSchedule doc is taken as it is; the branch
\* for a dependent schedule (lines 876-878) is empty
StateLunchSchedules == LunchSchedules \cup DependentLunchSchedules

\* the typed failure of the selector
UnresolvedUserSchedule == [error |-> "UnresolvedUserSchedule"]

\* getUserLunchSchedule of constants/Schedule.js, from the design document
\* (4.5): the config itself when not dependent, else the sub-config keyed by
\* the user's attribute, and a failure when there is none
getUserLunchSchedule(lunch, userData) ==
  IF ~ lunch.dependent THEN lunch
  ELSE IF "site" \in DOMAIN userData /\ userData.site \in DOMAIN lunch.byAttribute
    THEN lunch.byAttribute[userData.site]
    ELSE UnresolvedUserSchedule

\* HomeScreen.js line 164: `user || {}`
userOrEmpty(userData) == IF userData = null THEN << >> ELSE userData

\* a variant of line 164 that hands the lunch schedule of the state on as it
\* is, as Actions.js line 899 does
lunchScheduleOfState(lunch, userData) == lunch

\* HomeScreen.js line 164: the lunchSchedule prop
mapStateToProps(lunch, userData) == getUserLunchSchedule(lunch, userOrEmpty(userData))

SelectorInit ==
  /\ now = 0
  /\ orderSchedule \in {c[1] : c \in Configurations}
  /\ orderSchedule.scheduleType = OrderScheduleTypes.CUSTOM /\ orderSchedule.offsetDays = 0
  /\ lunchSchedule \in StateLunchSchedules
  /\ user \in Users
  /\ lunchScheduleProp = null
  /\ orders = <<>>
  /\ querySnapshot = <<>>
  /\ calledAt = 0
  /\ ranGroupWalk = FALSE
  /\ seenIndex = <<>>
  /\ authDataLoaded = FALSE
  /\ clockReads = <<>>
  /\ focusedOrder = null
  /\ route = "Home"
  /\ alerted = FALSE
  /\ pressedOrder = null
  /\ docs = <<>>
  /\ batch = null
  /\ settled = null
  /\ loading = FALSE
  /\ pending = EmptyBag
  /\ lastCall = null
  /\ lastSettled = null
  /\ mounted = FALSE
  /\ listening = FALSE
  /\ homeLog = <<>>
  /\ NoAccount

\* react-redux connect: the props are computed when the screen is mounted
connectHomeScreen ==
  /\ lunchScheduleProp = null
  /\ lunchScheduleProp' = mapStateToProps(lunchSchedule, user)
  /\ UNCHANGED <<now, orderSchedule, lunchSchedule, orders, querySnapshot, calledAt,
                 ranGroupWalk, seenIndex, authDataLoaded, clockReads, homeVars, mountVars, accountVars, user,
                 storeVars, loadingVars>>

\* the props of a connected screen are computed again with every change of the state
propsAfter(lunch, userData) ==
  IF lunchScheduleProp = null THEN null ELSE mapStateToProps(lunch, userData)

\* Actions.js line 900: UPDATE_USER_DATA puts the user's data into the state
updateUserData ==
  \E userData \in Users \ {null, user} :
    /\ user' = userData
    /\ lunchScheduleProp' = propsAfter(lunchSchedule, userData)
    /\ UNCHANGED <<now, orderSchedule, lunchSchedule, orders, querySnapshot, calledAt,
                   ranGroupWalk, seenIndex, authDataLoaded, clockReads, homeVars, mountVars, accountVars,
                   storeVars, loadingVars>>

\* Actions.js 636-638: after LOG_OUT the state holds no user
logOutAction ==
  /\ user # null
  /\ user' = null
  /\ lunchScheduleProp' = propsAfter(lunchSchedule, null)
  /\ UNCHANGED <<now, orderSchedule, lunchSchedule, orders, querySnapshot, calledAt,
                 ranGroupWalk, seenIndex, authDataLoaded, clockReads, homeVars, mountVars, accountVars,
                 storeVars, loadingVars>>

SelectorNext == connectHomeScreen \/ updateUserData \/ logOutAction

SelectorSpec == SelectorInit /\ [][SelectorNext]_vars

\* the user has no attribute value that the dependent schedule has a sub-config for
NoSubConfig ==
  /\ lunchSchedule.dependent
  /\ \/ user = null
     \/ "site" \notin DOMAIN user
     \/ user.site \notin DOMAIN lunchSchedule.byAttribute

Instants == 0..MaxNow

\* the cutoff instant of group g of the last call: that of its first date
CutoffOf(g) == cutoffInstant(orderSchedule, Groups[g][1])

\* C16: isBeforeCutoff is true exactly at the instants strictly earlier than
\* the group's cutoff instant, the cutoff instant itself counting as passed;
\* true at an instant, it is true at every earlier one (so once false it stays
\* false); and the reconciliation starts its index at -1 exactly when the
\* first available group is at or past its cutoff instant at the call.
C16_StrictlyBeforeCutoff ==
  (Dispatched /\ ranGroupWalk) =>
    /\ \A g \in DOMAIN Groups, t \in Instants :
         /\ isBeforeCutoff(Groups[g], orderSchedule, lunchSchedule, t) <=> t < CutoffOf(g)
         /\ \A u \in 0..t :
              isBeforeCutoff(Groups[g], orderSchedule, lunchSchedule, t)
                => isBeforeCutoff(Groups[g], orderSchedule, lunchSchedule, u)
    /\ Unclaimed # {} => (seenIndex[1] = 0 - 1 <=> calledAt >= CutoffOf(FirstUnclaimed))

\* a call made at the very cutoff instant of the first available group
C16_Witness ==
  /\ Dispatched /\ ranGroupWalk
  /\ Unclaimed # {}
  /\ calledAt = CutoffOf(FirstUnclaimed)
  /\ calledAt > 0
  /\ seenIndex[1] = 0 - 1

\* ------------------------------------------------------------------ C17
\* the open dates of the window of the last call, ascending
OpenDates ==
  IF DOMAIN querySnapshot = {} THEN <<>>
  ELSE getLunchSchedule(orderSchedule, lunchSchedule, toISODate(calledAt), LatestDay)

RECURSIVE Concatenation(_)
\* the dates of a sequence of groups, one group after the other
Concatenation(groups) ==
  IF Len(groups) = 0 THEN <<>> ELSE groups[1] \o Concatenation(Tail(groups))

\* C17: the groups of a reconciliation partition the open dates of its
\* window: no group is empty, no two groups share a date, the groups one
\* after the other are the open dates in order, and the date of any order
\* is in at most one group.
C17_GroupsPartitionOpenDates ==
  (Dispatched /\ ranGroupWalk) =>
    /\ \A g \in DOMAIN Groups : Len(Groups[g]) > 0
    /\ \A g, h \in DOMAIN Groups : g # h => Range(Groups[g]) \cap Range(Groups[h]) = {}
    /\ Concatenation(Groups) = OpenDates
    /\ \A id \in DOMAIN querySnapshot : Cardinality(GroupsOf(querySnapshot[id].date)) <= 1

\* a full group followed by a trailing partial group, with an order in each
C17_Witness ==
  /\ Dispatched /\ ranGroupWalk
  /\ Len(Groups) = 2
  /\ Len(Groups[1]) = lunchSchedule.schedule
  /\ Len(Groups[2]) < lunchSchedule.schedule
  /\ Claimed = DOMAIN Groups

\* -------------------------------------------- redux/Actions.js, loading
\* Actions.js 282-294: the SET_LOADING actions, as the sequence of flags dispatched
startLoading == <<TRUE>>

stopLoading == <<FALSE>>

\* a variant of alertFirestoreError that only shows the alert
alertOnly == <<>>

\* Actions.js 89-94: stopLoading, then the alert
alertAuthError == stopLoading

\* Actions.js 101-106: stopLoading, then the alert
alertFirestoreError == stopLoading

\* Actions.js 117-120: stopLoading, then the info message
successAction == stopLoading

\* the reducer of SET_LOADING: state.loading after a sequence of dispatches
setLoading(flag, dispatches) ==
  IF Len(dispatches) = 0 THEN flag ELSE dispatches[Len(dispatches)]

\* ------------------------------------------------------------ C18, C19
\* the snapshot of a collection as updateOrders reads it: the date of each doc
querySnapshotOf(collection) ==
  [id \in DOMAIN collection |-> [date |-> collection[id].date]]

\* the collection after one doc has been removed, or written as ordered
NextOrderDocs(last) ==
  {[k \in DOMAIN last \ {id} |-> last[k]] : id \in DOMAIN last}
  \cup {[k \in DOMAIN last \cup {w[1]} |->
           IF k = w[1] THEN [date |-> w[2], contents |-> "as ordered"] ELSE last[k]] :
          w \in Ids \X Dates}

\* Actions.js 695-700: the listener's callback for a changed collection; the
\* screen subscribes once the data is loaded
onSnapshot(collection) ==
  IF authDataLoaded /\ collection # docs
    THEN dispatchUpdateOrders(querySnapshotOf(collection), orderSchedule, lunchSchedule)
    ELSE UNCHANGED <<orders, ranGroupWalk, seenIndex, querySnapshot, calledAt, clockReads>>

\* Actions.js 893-900: the one-shot fetch of the orders collection
fetchOrders ==
  /\ ~ authDataLoaded
  /\ dispatchUpdateOrders(querySnapshotOf(docs), orderSchedule, lunchSchedule)
  /\ authDataLoaded' = TRUE
  /\ UNCHANGED <<now, orderSchedule, lunchSchedule, appVars>>

\* Actions.js 134-152 and writes from the user's other devices: one doc of
\* the collection is written or removed, and the listener is called
changeOrders ==
  \E collection \in NextOrderDocs(docs) :
    /\ batch = null
    /\ docs' = collection
    /\ settled' = null
    /\ onSnapshot(collection)
    /\ UNCHANGED <<now, orderSchedule, lunchSchedule, authDataLoaded, batch,
                   homeVars, mountVars, accountVars, selectorVars, loadingVars>>

\* HomeScreen.js line 118: `item.keys || item.key`
keysOrKey(item) ==
  IF itemProperty(item, "keys") # {}
    THEN [isArray |-> TRUE, keys |-> item.keys]
    ELSE [isArray |-> FALSE, key |-> item.key]

\* a variant of lines 200-208 that deletes the first doc of an array only
deleteFirstOrder(id) ==
  [delete |-> IF id.isArray THEN {id.keys[1]} ELSE {id.key}, set |-> <<>>]

\* Actions.js 200-208: the batch of deleteOrder, one delete for each id
deleteOrder(id) ==
  [delete |-> IF id.isArray THEN Range(id.keys) ELSE {id.key}, set |-> <<>>]

\* the dates that the entry of state.orders behind an item stands for
datesOfOrder(order) ==
  IF "keys" \in DOMAIN order THEN Range(order.date) ELSE {order.date}

\* HomeScreen.js line 118 and Actions.js 198-209: the user deletes an item
\* of the list; the batch is handed to commit
pressDelete ==
  \E n \in DOMAIN ordersProp :
    /\ authDataLoaded
    /\ batch = null
    /\ batch' = [writes |-> deleteOrder(keysOrKey(ordersProp[n])),
                 op |-> "delete",
                 dates |-> datesOfOrder(orders[ordersProp[n].key]),
                 cutoffDay |-> CutoffDay,
                 listed |-> docs]
    /\ settled' = null
    /\ loading' = setLoading(loading, startLoading)
    /\ UNCHANGED <<now, orderSchedule, lunchSchedule, orders, querySnapshot, calledAt,
                   ranGroupWalk, seenIndex, authDataLoaded, clockReads, docs,
                   homeVars, mountVars, accountVars, selectorVars, pending, lastCall, lastSettled>>

\* a variant of the commit that stops at the first write
applyFirstWrite(collection, writes) ==
  IF writes.delete # {} THEN Without(collection, {Min(writes.delete)})
  ELSE IF DOMAIN writes.set # {}
    THEN (Min(DOMAIN writes.set) :> writes.set[Min(DOMAIN writes.set)]) @@ collection
    ELSE collection

\* batch.commit of Firestore: all writes of the batch are applied together
applyBatch(collection, writes) ==
  writes.set @@ Without(collection, writes.delete)

\* Actions.js 151, 185, 210 (.then): the commit succeeds
batchCommitted ==
  /\ batch # null
  /\ docs' = applyBatch(docs, batch.writes)
  /\ onSnapshot(applyBatch(docs, batch.writes))
  /\ settled' = [batch |-> batch, ok |-> TRUE, before |-> docs]
  /\ batch' = null
  /\ loading' = setLoading(loading, successAction)
  /\ UNCHANGED <<now, orderSchedule, lunchSchedule, authDataLoaded, homeVars, mountVars, accountVars, selectorVars,
                 pending, lastCall, lastSettled>>

\* Actions.js 152, 186, 211 (.catch): the commit fails and nothing is written
batchFailed ==
  /\ batch # null
  /\ settled' = [batch |-> batch, ok |-> FALSE, before |-> docs]
  /\ batch' = null
  /\ loading' = setLoading(loading, alertFirestoreError)
  /\ UNCHANGED <<now, orderSchedule, lunchSchedule, orders, querySnapshot, calledAt,
                 ranGroupWalk, seenIndex, authDataLoaded, clockReads, docs,
                 homeVars, mountVars, accountVars, selectorVars, pending, lastCall, lastSettled>>

StoreNext == Tick \/ fetchOrders \/ changeOrders \/ pressDelete \/ batchCommitted \/ batchFailed

\* deleteOrder and editOrder read nothing that the offset of the cutoff
\* moves (it moves the index only): one offset stands for all
StoreInit == Init /\ orderSchedule.offsetDays = 0

StoreSpec == StoreInit /\ [][StoreNext]_vars

\* the batch settled last came from deleteOrder
Deleted == settled # null /\ settled.batch.op = "delete"

\* the docs that were in the collection when the item was pressed and are
\* dated on one of the dates of the deleted item
RecordsOfDeleted ==
  {id \in DOMAIN settled.batch.listed : settled.batch.listed[id].date \in settled.batch.dates}

\* those of them that the reconciliation behind the list had kept
KeptRecordsOfDeleted ==
  {id \in RecordsOfDeleted : settled.batch.listed[id].date >= settled.batch.cutoffDay}

\* C19 as stated: after a successful deleteOrder none of the named docs
\* exists and after a failed one the collection is as it was; no record of
\* a deleted CUSTOM group, whatever its date, is left.
C19_AsStated ==
  Deleted =>
    /\ settled.ok => \A id \in settled.batch.writes.delete : id \notin DOMAIN docs
    /\ (settled.ok /\ IsCustom) => \A id \in RecordsOfDeleted : id \notin DOMAIN docs
    /\ ~ settled.ok => docs = settled.before

\* C19: after a successful deleteOrder none of the named docs exists and
\* after a failed one the collection is as it was; deleting a CUSTOM group
\* of the home screen names every record of the group that the
\* reconciliation behind the list had kept (the records dated on or after
\* its cutoff date), so none of those is left.
C19_KeptRecordsAreDeleted ==
  Deleted =>
    /\ settled.ok => \A id \in settled.batch.writes.delete : id \notin DOMAIN docs
    /\ (settled.ok /\ IsCustom) => \A id \in KeptRecordsOfDeleted : id \notin DOMAIN docs
    /\ ~ settled.ok => docs = settled.before

\* a group with two records has been deleted
C19_Witness ==
  /\ Deleted /\ settled.ok
  /\ IsCustom
  /\ Cardinality(settled.batch.writes.delete) = 2
  /\ KeptRecordsOfDeleted = settled.batch.writes.delete

\* the data of an order as an edit gives it
editedOrder(date) == [date |-> date, contents |-> "as edited"]

\* Actions.js 171-178: dataToPush, one order for a DAILY schedule and one
\* for each date of the data otherwise
dataToPush(dates) == [i \in 1..Cardinality(dates) |-> editedOrder(SortedSeq(dates)[i])]

\* Actions.js 180-183: doc(ids[i]) of the i-th order; doc(undefined) is a new
\* doc with an id of its own
docRefs(ids, count, fresh) ==
  [i \in 1..count |-> IF i <= Len(ids) THEN ids[i] ELSE fresh[i - Len(ids)]]

\* Actions.js 179-184: the batch of editOrder, a set for each order pushed
editOrder(pushed, refs) ==
  [delete |-> {},
   set |-> [id \in Range(refs) |-> pushed[CHOOSE i \in DOMAIN refs : refs[i] = id]]]

\* the dates an edit may give an order: one for a DAILY schedule
EditedDates ==
  {dates \in SUBSET Dates : dates # {} /\ Cardinality(dates) <= (IF IsCustom THEN MaxIds ELSE 1)}

\* the ids of docs that do not exist yet, for the orders pushed beyond ids
FreshIds(count) ==
  {fresh \in UNION {[1..k -> Ids \ DOMAIN docs] : k \in {count}} :
     \A i, j \in 1..count : i # j => fresh[i] # fresh[j]}

\* the ids of the orders behind an item, as the order screen hands them on
idsOfItem(item) ==
  IF itemProperty(item, "keys") # {} THEN item.keys ELSE <<item.key>>

\* Actions.js 169-185: the user saves an edit of an item of the list
saveEdit ==
  \E n \in DOMAIN ordersProp, dates \in EditedDates :
    \E fresh \in FreshIds(IF Cardinality(dates) > Len(idsOfItem(ordersProp[n]))
                            THEN Cardinality(dates) - Len(idsOfItem(ordersProp[n])) ELSE 0) :
      /\ authDataLoaded
      /\ batch = null
      /\ batch' = [writes |-> editOrder(dataToPush(dates),
                                docRefs(idsOfItem(ordersProp[n]), Cardinality(dates), fresh)),
                   op |-> "edit",
                   dates |-> dates,
                   cutoffDay |-> CutoffDay,
                   listed |-> docs,
                   ids |-> Range(idsOfItem(ordersProp[n]))]
      /\ settled' = null
      /\ loading' = setLoading(loading, startLoading)
      /\ UNCHANGED <<now, orderSchedule, lunchSchedule, orders, querySnapshot, calledAt,
                     ranGroupWalk, seenIndex, authDataLoaded, clockReads, docs,
                     homeVars, mountVars, accountVars, selectorVars, pending, lastCall, lastSettled>>

EditNext == StoreNext \/ saveEdit

EditSpec == StoreInit /\ [][EditNext]_vars

\* C18: after a successful editOrder every doc of the edited order that
\* still exists holds one of the edited orders: none is left with its old
\* date or its old contents; an order whose date is unchanged is edited in
\* its own doc.
C18_NoOldDocRemains ==
  (settled # null /\ settled.batch.op = "edit" /\ settled.ok) =>
    /\ \A id \in settled.batch.ids \cap DOMAIN docs :
         /\ docs[id].contents = "as edited"
         /\ docs[id].date \in settled.batch.dates
    /\ \A id \in settled.batch.ids :
         (Cardinality(settled.batch.ids) = 1 /\ settled.batch.dates = {settled.before[id].date})
           => (id \in DOMAIN docs /\ docs[id] = editedOrder(settled.before[id].date))

\* ------------------------------------------------------------------ C20
\* the actions that dispatch startLoading, each with the promise it awaits first
FirstAwait ==
  [createOrder |-> "batch.commit (createOrder)",
   editOrder |-> "batch.commit (editOrder)",
   deleteOrder |-> "batch.commit (deleteOrder)",
   createPreset |-> "myPresets.add",
   editPreset |-> "myPresets.doc.set",
   deletePreset |-> "myPresets.doc.delete",
   logIn |-> "signInWithEmailAndPassword",
   logOut |-> "signOut",
   editUserData |-> "myUserData.set",
   resetPassword |-> "sendPasswordResetEmail",
   changePassword |-> "reauthenticateWithCredential",
   getUnauthData |-> "getDomainByCode",
   getAuthData |-> "userDomains.doc.get",
   createUser |-> "getUser"]

LoadingActions == DOMAIN FirstAwait

\* how a promise settles; a query may also resolve with nothing found
Outcomes == {"resolved", "resolved with nothing", "rejected"}

\* the promises whose value the code tests: the domain found by the code
\* (lines 762-765), the user's domain doc (line 743), the uid of getUser (line 431)
TestedAwaits == {"getDomainByCode", "userDomains.doc.get", "getUser"}

\* what a handler does: the SET_LOADING flags it dispatches, in order, and
\* the promises it then awaits
handler(dispatches, awaits) == [dispatches |-> dispatches, awaits |-> awaits]

\* Actions.js 359-364: logOut dispatches startLoading and awaits signOut
logOut == handler(startLoading, {"signOut"})

\* the handlers one after the other
andThen(first, second) ==
  handler(first.dispatches \o second.dispatches, first.awaits \cup second.awaits)

\* handlers that start no promise
done(dispatches) == handler(dispatches, {})

\* Actions.js 425-429: catchFirestoreError of createUser.  deleteFailedUser is
\* not awaited and dispatches nothing.
catchFirestoreError == andThen(done(alertFirestoreError), logOut)

\* Actions.js 463-466: the outer catch of createUser
catchAuthError == andThen(done(alertAuthError), logOut)

\* the continuation of each promise: .then for "resolved", .catch or the
\* enclosing catch for "rejected"
continuation(await, outcome) ==
  CASE await \in {"batch.commit (createOrder)", "batch.commit (editOrder)",
                  "batch.commit (deleteOrder)", "myPresets.add", "myPresets.doc.set",
                  "myPresets.doc.delete", "myUserData.set"} ->
         \* lines 150-152, 184-186, 209-211, 230-232, 253-255, 273-275, 385-387
         IF outcome = "rejected" THEN done(alertFirestoreError) ELSE done(successAction)
    [] await \in {"signInWithEmailAndPassword", "signOut"} ->
         \* lines 350-352, 361-363
         IF outcome = "rejected" THEN done(alertAuthError) ELSE done(stopLoading)
    [] await = "sendPasswordResetEmail" ->
         \* lines 649-651
         IF outcome = "rejected" THEN done(alertAuthError) ELSE done(successAction)
    [] await = "reauthenticateWithCredential" ->
         \* lines 665-669
         IF outcome = "rejected" THEN done(alertAuthError)
         ELSE handler(<<>>, {"updatePassword"})
    [] await = "updatePassword" ->
         \* lines 666-668
         IF outcome = "rejected" THEN done(alertAuthError) ELSE done(successAction)
    [] await = "getDomainByCode" ->
         \* lines 756-775 and 804-812
         IF outcome = "rejected" THEN done(alertFirestoreError)
         ELSE IF outcome = "resolved with nothing" THEN done(stopLoading)
         ELSE handler(<<>>, {"getStateConstants"})
    [] await = "getStateConstants" ->
         \* lines 813-823: the catch, then the finally
         IF outcome = "rejected" THEN done(alertFirestoreError \o stopLoading)
         ELSE done(stopLoading)
    [] await = "userDomains.doc.get" ->
         \* lines 741-747; a rejection is caught by getAuthData, lines 904-907
         IF outcome = "rejected" THEN done(alertFirestoreError)
         ELSE IF outcome = "resolved with nothing" THEN handler(<<>>, {"deleteFailedUser"})
         ELSE handler(<<>>, {"domains.doc.get"})
    [] await = "deleteFailedUser" ->
         \* lines 744-746, then the catch of getAuthData
         IF outcome = "rejected" THEN done(alertFirestoreError)
         ELSE andThen(logOut, done(alertFirestoreError))
    [] await = "domains.doc.get" ->
         \* lines 750-753, then lines 893-898
         IF outcome = "rejected" THEN done(alertFirestoreError)
         ELSE handler(stopLoading, {"Promise.all (getAuthData)"})
    [] await = "Promise.all (getAuthData)" ->
         \* lines 899-907
         IF outcome = "rejected" THEN done(alertFirestoreError) ELSE done(<<>>)
    [] await = "getUser" ->
         \* lines 431-434, 455
         IF outcome = "rejected" THEN catchAuthError
         ELSE IF outcome = "resolved with nothing"
           THEN handler(<<>>, {"createUserWithEmailAndPassword"})
           ELSE handler(<<>>, {"runTransaction"})
    [] await = "runTransaction" ->
         \* lines 436-452: editUserData (line 377) dispatches startLoading; after
         \* the inner catch the function goes on to sign in
         IF outcome = "rejected"
           THEN andThen(catchFirestoreError, handler(<<>>, {"signIn (createUser)"}))
           ELSE handler(startLoading, {"myUserData.set (createUser)"})
    [] await = "myUserData.set (createUser)" ->
         \* lines 385-387, then line 453
         andThen(done(IF outcome = "rejected" THEN alertFirestoreError ELSE successAction),
                 handler(<<>>, {"signIn (createUser)"}))
    [] await = "signIn (createUser)" ->
         \* lines 453, 463-466
         IF outcome = "rejected" THEN catchAuthError ELSE done(<<>>)
    [] await = "createUserWithEmailAndPassword" ->
         \* lines 455-461: Promise.all of the set and of editUserData
         IF outcome = "rejected" THEN catchAuthError
         ELSE handler(startLoading, {"userDomains.doc.set", "myUserData.set"})
    [] await = "userDomains.doc.set" ->
         \* lines 458-461: Promise.all rejects when the set does
         IF outcome = "rejected" THEN catchFirestoreError ELSE done(<<>>)

Awaits ==
  {FirstAwait[a] : a \in LoadingActions}
  \cup {"updatePassword", "getStateConstants", "deleteFailedUser", "domains.doc.get",
        "Promise.all (getAuthData)", "runTransaction", "myUserData.set (createUser)",
        "signIn (createUser)", "createUserWithEmailAndPassword", "userDomains.doc.set"}

\* no promise is pending: whatever was called has finished
Idle == pending = EmptyBag

\* an action is called while nothing else runs: it dispatches startLoading
\* (its first statement) and awaits its first promise
call ==
  \E action \in LoadingActions :
    /\ Idle
    /\ loading' = setLoading(loading, startLoading)
    /\ pending' = pending (+) SetToBag({FirstAwait[action]})
    /\ lastCall' = [action |-> action]
    /\ lastSettled' = null
    /\ UNCHANGED <<now, orderSchedule, lunchSchedule, orders, querySnapshot, calledAt,
                   ranGroupWalk, seenIndex, authDataLoaded, clockReads,
                   homeVars, mountVars, accountVars, selectorVars, storeVars>>

\* the promise `await` settles and its continuation runs
settle(await) ==
  \E outcome \in Outcomes :
    /\ BagIn(await, pending)
    /\ outcome = "resolved with nothing" => await \in TestedAwaits
    /\ loading' = setLoading(loading, continuation(await, outcome).dispatches)
    /\ pending' = (pending (-) SetToBag({await}))
                    (+) SetToBag(continuation(await, outcome).awaits)
    /\ lastSettled' = [await |-> await, outcome |-> outcome]
    /\ UNCHANGED <<now, orderSchedule, lunchSchedule, orders, querySnapshot, calledAt,
                   ranGroupWalk, seenIndex, authDataLoaded, clockReads,
                   homeVars, mountVars, accountVars, selectorVars, storeVars, lastCall>>

promiseSettles == \E await \in Awaits : settle(await)

LoadingNext == call \/ promiseSettles

LoadingSpec == Init /\ [][LoadingNext]_vars

\* every pending promise settles at some time
LoadingLiveSpec == LoadingSpec /\ \A await \in Awaits : WF_vars(settle(await))

\* C20: an action that has dispatched startLoading dispatches stopLoading
\* later, whichever way its promises settle, and once every promise of an
\* action that runs alone has settled the loading flag is false.
C20_LoadingStops ==
  /\ loading ~> ~ loading
  /\ [](Idle => ~ loading)

\* createUser found the user, its transaction failed, and both the sign-out
\* of the error handler and the sign-in that follows have settled
C20_Witness ==
  /\ lastCall = [action |-> "createUser"]
  /\ lastSettled = [await |-> "signOut", outcome |-> "rejected"]
  /\ Idle
  /\ ~ loading

\* ------------------------------------------------------------------ C27
\* the positions in allScheduleGroups, before position g, of the groups
\* that the last call found available (line 562)
AvailableBefore(g) ==
  {h \in DOMAIN LastGroups : h < g /\ isAvailableGroup(LastAvailable, LastGroups[h])}

\* the first available group of the last call is no longer before its cutoff
FirstAvailablePassed ==
  /\ Len(LastAvailable) > 0
  /\ calledAt >= cutoffInstant(orderSchedule, LastAvailable[1][1])

\* C27: for a CUSTOM schedule the index stored on a claimed group is the
\* number of available groups before it in allScheduleGroups, less one when
\* the first available group is no longer before its cutoff; a claimed
\* group does not advance the counter; the indexes do not decrease along
\* the groups; and a claimed group's index is negative exactly when the
\* first available group is past its cutoff and no available group
\* precedes the claimed one.
C27_IndexCountsAvailableGroups ==
  (Dispatched /\ ranGroupWalk) =>
    /\ \A k \in DOMAIN orders :
         /\ orders[k].index
              = Cardinality(AvailableBefore(k + 1)) - (IF FirstAvailablePassed THEN 1 ELSE 0)
         /\ orders[k].index < 0 <=> (FirstAvailablePassed /\ AvailableBefore(k + 1) = {})
         /\ (k + 2) \in DOMAIN seenIndex => seenIndex[k + 2] = seenIndex[k + 1]
    /\ \A k, l \in DOMAIN orders : k < l => orders[k].index <= orders[l].index

\* two claimed groups, the first with no available group before it and a
\* negative index, the second after an available group that is past its
\* cutoff
C27_Witness ==
  /\ Dispatched /\ ranGroupWalk
  /\ FirstAvailablePassed
  /\ \E k, l \in DOMAIN orders :
       /\ k < l
       /\ AvailableBefore(k + 1) = {}
       /\ AvailableBefore(l + 1) # {}
       /\ orders[k].index < orders[l].index

\* ------------------------------------------------------------------ C26
\* the dates of the order records of a list item's group
RecordDatesOf(item) == {querySnapshot[id].date : id \in Range(item.keys)}

\* C26: for a CUSTOM schedule the data list of every list item built by
\* getOrdersArr from a reconciled group has as many entries as the group
\* has record dates, and every entry is an order record of the group.
C26_DataHoldsTheRecordsOnly ==
  (Dispatched /\ IsGrouped) =>
    \A n \in DOMAIN ordersProp :
      /\ Len(ordersProp[n].data) = Cardinality(RecordDatesOf(ordersProp[n]))
      /\ \A e \in DOMAIN ordersProp[n].data :
           /\ "key" \in DOMAIN ordersProp[n].data[e]
           /\ ordersProp[n].data[e].key \in Range(ordersProp[n].keys)

\* ------------------------------------------------------------------ C21
\* the most promises in flight at a time
MaxInFlight == 2

\* an action is called whether or not another one is still running (nothing
\* in Actions.js holds a call back): it dispatches startLoading and awaits
\* its first promise
callOverlapping ==
  \E action \in LoadingActions :
    /\ BagCardinality(pending) < MaxInFlight
    /\ loading' = setLoading(loading, startLoading)
    /\ pending' = pending (+) SetToBag({FirstAwait[action]})
    /\ lastCall' = [action |-> action]
    /\ lastSettled' = null
    /\ UNCHANGED <<now, orderSchedule, lunchSchedule, orders, querySnapshot, calledAt,
                   ranGroupWalk, seenIndex, authDataLoaded, clockReads,
                   homeVars, mountVars, accountVars, selectorVars, storeVars>>

OverlapNext == callOverlapping \/ promiseSettles

OverlapSpec == Init /\ [][OverlapNext]_vars

\* C21: under any interleaving of overlapping actions the loading flag is
\* true whenever a started action has not completed.
C21_LoadingWhileInFlight == (~ Idle) => loading

\* ------------------------------------------------------------------ C25
\* the navigation actions that remove the home screen: the header's button
\* pops it (HomeScreen.js line 101); the others come from the navigator
RemoveActionTypes == {"POP", "GO_BACK", "RESET"}

\* HomeScreen.js 80-86: what the effect calls when the screen mounts
mountEffect == <<"onSnapshot", "addListener">>

\* HomeScreen.js 81-86: what the beforeRemove listener calls
beforeRemove(type) ==
  IF type = "POP" THEN <<"unsubscribeFromWatchOrders", "logOut">> ELSE <<>>

\* a variant of lines 87-90 that releases the navigation listener only
cleanupOfListenerOnly == <<"unsubscribeFromListener">>

\* HomeScreen.js 87-90: what the cleanup of the effect calls
cleanup == <<"unsubscribeFromWatchOrders", "unsubscribeFromListener">>

\* whether the onSnapshot listener is still subscribed after the calls
listeningAfter(was, calls) ==
  was /\ ~ \E i \in DOMAIN calls : calls[i] = "unsubscribeFromWatchOrders"

\* HomeScreen.js 79-80: the screen mounts and its effect runs, once, since
\* the navigation object of a screen stays the same
mountHomeScreen ==
  /\ ~ mounted
  /\ BagCardinality(pending) < MaxInFlight
  /\ mounted' = TRUE
  /\ listening' = TRUE
  /\ homeLog' = mountEffect
  /\ UNCHANGED <<now, orderSchedule, lunchSchedule, orders, querySnapshot, calledAt,
                 ranGroupWalk, seenIndex, authDataLoaded, clockReads,
                 homeVars, selectorVars, storeVars, loadingVars, accountVars>>

\* Actions.js 695-700: the listener hands a snapshot to updateOrders and
\* dispatches the result, as long as it is subscribed
onSnapshotOfHomeScreen ==
  \E snapshot \in NextSnapshots(querySnapshot) :
    /\ listening
    /\ dispatchUpdateOrders(snapshot, orderSchedule, lunchSchedule)
    /\ UNCHANGED <<now, orderSchedule, lunchSchedule, authDataLoaded, appVars>>

\* the screen is removed: the beforeRemove listener runs (lines 81-86), then
\* the screen unmounts and the cleanup of the effect runs (lines 87-90);
\* logOut (Actions.js 359-364) dispatches startLoading and awaits signOut
removeHomeScreen ==
  \E type \in RemoveActionTypes :
    \E calls \in {beforeRemove(type) \o cleanup} :
      /\ mounted
      /\ mounted' = FALSE
      /\ listening' = listeningAfter(listening, calls)
      /\ homeLog' = homeLog \o calls
      /\ IF \E i \in DOMAIN calls : calls[i] = "logOut"
           THEN /\ loading' = setLoading(loading, logOut.dispatches)
                /\ pending' = pending (+) SetToBag(logOut.awaits)
           ELSE UNCHANGED <<loading, pending>>
      /\ UNCHANGED <<now, orderSchedule, lunchSchedule, orders, querySnapshot, calledAt,
                     ranGroupWalk, seenIndex, authDataLoaded, clockReads,
                     homeVars, selectorVars, storeVars, lastCall, lastSettled, accountVars>>

MountNext ==
  \/ mountHomeScreen
  \/ onSnapshotOfHomeScreen
  \/ removeHomeScreen
  \/ promiseSettles

\* the orders are reconciled as in StoreSpec, with no cutoff offset
MountSpec == StoreInit /\ [][MountNext]_vars

\* the positions of a call in the log of the effect
CallsOf(name) == {i \in DOMAIN homeLog : homeLog[i] = name}

Domains == {"a", "b"}

\* the most createUser calls of a behaviour
MaxCalls == 2

\* undefined of JavaScript, as an entry of a list of domains
undefined == "undefined"

\* the docs the userDomains collection may hold for a user: none; the doc
\* of Actions.js lines 446 and 458, { domains: [...] }; the doc of an older
\* version, { domain }; a doc with neither field (line 743 expects it)
UserDomainsDocs ==
  {null, [neither |-> TRUE]}
  \cup {[domain |-> d] : d \in Domains}
  \cup {[domains |-> <<d>>] : d \in Domains}
  \cup {[domains |-> <<w[1], w[2]>>] : w \in {v \in Domains \X Domains : v[1] # v[2]}}

\* Actions.js 439-442 (and 394-397):
\* domains = doc.data().domains || [doc.data().domain] || [] when doc.exists
domainsOf(doc) ==
  IF doc = null THEN <<>>
  ELSE IF "domains" \in DOMAIN doc THEN doc.domains
  ELSE IF "domain" \in DOMAIN doc THEN <<doc.domain>>
  ELSE <<undefined>>

\* Actions.js 443: domains.includes(domain)
includes(domains, d) == \E i \in DOMAIN domains : domains[i] = d

\* before any call: an account may exist, with the doc and the profiles of
\* the domains it registered in, or with no doc
AccountsAt(currentUser) ==
  /\ EngineInit
  /\ orderSchedule.scheduleType = OrderScheduleTypes.DAILY /\ orderSchedule.offsetDays = 0
  /\ registered \in BOOLEAN
  /\ userDomainsDoc \in UserDomainsDocs
  /\ ~ registered => userDomainsDoc = null
  /\ profiles = {d \in Domains : includes(domainsOf(userDomainsDoc), d)}
  /\ signedIn = currentUser
  /\ signOuts = 0
  /\ deleteRequests = {}
  /\ createUserCalls = <<>>
  /\ authDataCall = null
  /\ dispatched = {}
  /\ domain = null

\* nobody is signed in when createUser is called
AccountInit == AccountsAt(FALSE)

\* what createUser leaves alone
notOfCreateUser ==
  <<now, orderSchedule, lunchSchedule, orders, querySnapshot, calledAt, ranGroupWalk,
    seenIndex, authDataLoaded, clockReads, homeVars, selectorVars, storeVars, mountVars,
    pending, lastCall, lastSettled, authDataCall, dispatched, domain>>

\* a createUser call moves on: the fields of `changes` replace its own
moveOn(c, changes) ==
  [createUserCalls EXCEPT ![c] =
     [f \in DOMAIN @ |-> IF f \in DOMAIN changes THEN changes[f] ELSE @[f]]]

\* Actions.js 422-423, 431: createUser is called, dispatches startLoading
\* and awaits getUser(email)
callCreateUser ==
  \E d \in Domains, right \in BOOLEAN :
    /\ Len(createUserCalls) < MaxCalls
    /\ createUserCalls' = Append(createUserCalls,
         [domain |-> d, passwordIsRight |-> right, pc |-> "getUser", existing |-> FALSE,
          awaiting |-> {}, threw |-> "none", caught |-> FALSE, signInAfter |-> "none",
          calledEditUserData |-> FALSE])
    /\ loading' = setLoading(loading, startLoading)
    /\ UNCHANGED <<registered, userDomainsDoc, profiles, signedIn, signOuts, deleteRequests>>
    /\ UNCHANGED notOfCreateUser

\* Actions.js 431-434, 455, 463-466: getUser settles
getUserSettles ==
  \E c \in DOMAIN createUserCalls, outcome \in {"resolved", "rejected"} :
    /\ createUserCalls[c].pc = "getUser"
    /\ IF outcome = "rejected"
         THEN /\ createUserCalls' = moveOn(c, [pc |-> "done", caught |-> TRUE])
              /\ loading' = setLoading(loading, catchAuthError.dispatches)
              /\ signOuts' = signOuts + 1
         ELSE /\ createUserCalls' =
                   moveOn(c, [existing |-> registered,
                              pc |-> IF registered THEN "runTransaction"
                                     ELSE "createUserWithEmailAndPassword"])
              /\ UNCHANGED <<loading, signOuts>>
    /\ UNCHANGED <<registered, userDomainsDoc, profiles, signedIn, deleteRequests>>
    /\ UNCHANGED notOfCreateUser

\* Actions.js 425-429 and 436-452: the transaction runs, atomically, or is
\* rejected by Firestore.  When it throws, catchFirestoreError calls
\* deleteFailedUser(uid, domain), alerts and starts logOut, and the function
\* goes on to line 453; otherwise editUserData dispatches startLoading and
\* sets the profile data.
runTransactionSettles ==
  \E c \in DOMAIN createUserCalls, outcome \in {"resolved", "rejected"} :
    LET d == createUserCalls[c].domain
        domains == domainsOf(userDomainsDoc)
        thrown == IF outcome = "rejected" THEN "firestore"
                  ELSE IF includes(domains, d) THEN "auth/email-already-in-use"
                  ELSE "none" IN
    /\ createUserCalls[c].pc = "runTransaction"
    /\ IF thrown # "none"
         THEN /\ createUserCalls' =
                   moveOn(c, [pc |-> "signIn", threw |-> thrown, caught |-> TRUE,
                              signInAfter |-> thrown])
              /\ deleteRequests' = deleteRequests \cup {[existing |-> TRUE, domain |-> d]}
              /\ loading' = setLoading(loading, catchFirestoreError.dispatches)
              /\ signOuts' = signOuts + 1
              /\ UNCHANGED userDomainsDoc
         ELSE /\ createUserCalls' =
                   moveOn(c, [pc |-> "myUserData.set", calledEditUserData |-> TRUE])
              /\ userDomainsDoc' = [domains |-> Append(domains, d)]
              /\ loading' = setLoading(loading, startLoading)
              /\ UNCHANGED <<deleteRequests, signOuts>>
    /\ UNCHANGED <<registered, profiles, signedIn>>
    /\ UNCHANGED notOfCreateUser

\* Actions.js 377-388: the set of editUserData settles; editUserData catches
\* its own error.  On the path of an existing user createUser goes on to
\* line 453; on the path of a new user it is one of the two promises of
\* Promise.all (lines 457-461).
myUserDataSetSettles ==
  \E c \in DOMAIN createUserCalls, outcome \in {"resolved", "rejected"} :
    LET this == createUserCalls[c] IN
    /\ \/ this.pc = "myUserData.set"
       \/ this.pc = "Promise.all" /\ "myUserData.set" \in this.awaiting
    /\ profiles' = IF outcome = "resolved" THEN profiles \cup {this.domain} ELSE profiles
    /\ loading' = setLoading(loading, IF outcome = "resolved" THEN successAction
                                      ELSE alertFirestoreError)
    /\ createUserCalls' =
         IF this.pc = "myUserData.set" THEN moveOn(c, [pc |-> "signIn"])
         ELSE moveOn(c, [awaiting |-> this.awaiting \ {"myUserData.set"},
                         pc |-> IF this.awaiting = {"myUserData.set"} THEN "done"
                                ELSE "Promise.all"])
    /\ UNCHANGED <<registered, userDomainsDoc, signedIn, signOuts, deleteRequests>>
    /\ UNCHANGED notOfCreateUser

\* Actions.js 453, 463-466: signInWithEmailAndPassword settles; it resolves
\* for the password of the account only
signInSettles ==
  \E c \in DOMAIN createUserCalls, outcome \in {"resolved", "rejected"} :
    /\ createUserCalls[c].pc = "signIn"
    /\ outcome = "resolved" => (registered /\ createUserCalls[c].passwordIsRight)
    /\ IF outcome = "resolved"
         THEN /\ signedIn' = TRUE
              /\ createUserCalls' = moveOn(c, [pc |-> "done"])
              /\ UNCHANGED <<loading, signOuts>>
         ELSE /\ createUserCalls' = moveOn(c, [pc |-> "done", caught |-> TRUE])
              /\ loading' = setLoading(loading, catchAuthError.dispatches)
              /\ signOuts' = signOuts + 1
              /\ UNCHANGED signedIn
    /\ UNCHANGED <<registered, userDomainsDoc, profiles, deleteRequests>>
    /\ UNCHANGED notOfCreateUser

\* Actions.js 455-461, 463-466: createUserWithEmailAndPassword settles; it
\* resolves when the email has no account, makes one and signs it in; then
\* the set of the doc and editUserData start together
createUserWithEmailAndPasswordSettles ==
  \E c \in DOMAIN createUserCalls, outcome \in {"resolved", "rejected"} :
    /\ createUserCalls[c].pc = "createUserWithEmailAndPassword"
    /\ outcome = "resolved" => ~ registered
    /\ IF outcome = "resolved"
         THEN /\ registered' = TRUE
              /\ signedIn' = TRUE
              /\ createUserCalls' =
                   moveOn(c, [pc |-> "Promise.all", calledEditUserData |-> TRUE,
                              awaiting |-> {"userDomains.doc.set", "myUserData.set"}])
              /\ loading' = setLoading(loading, startLoading)
              /\ UNCHANGED signOuts
         ELSE /\ createUserCalls' = moveOn(c, [pc |-> "done", caught |-> TRUE])
              /\ loading' = setLoading(loading, catchAuthError.dispatches)
              /\ signOuts' = signOuts + 1
              /\ UNCHANGED <<registered, signedIn>>
    /\ UNCHANGED <<userDomainsDoc, profiles, deleteRequests>>
    /\ UNCHANGED notOfCreateUser

\* Actions.js 457-461: the set of { domains: [domain] } settles; it replaces
\* the doc; when it is rejected Promise.all is, and catchFirestoreError runs
userDomainsSetSettles ==
  \E c \in DOMAIN createUserCalls, outcome \in {"resolved", "rejected"} :
    LET this == createUserCalls[c] IN
    /\ this.pc = "Promise.all" /\ "userDomains.doc.set" \in this.awaiting
    /\ createUserCalls' =
         moveOn(c, [awaiting |-> this.awaiting \ {"userDomains.doc.set"},
                    pc |-> IF this.awaiting = {"userDomains.doc.set"} THEN "done"
                           ELSE "Promise.all",
                    caught |-> this.caught \/ outcome = "rejected"])
    /\ IF outcome = "resolved"
         THEN /\ userDomainsDoc' = [domains |-> <<this.domain>>]
              /\ UNCHANGED <<deleteRequests, loading, signOuts>>
         ELSE /\ deleteRequests' =
                   deleteRequests \cup {[existing |-> FALSE, domain |-> this.domain]}
              /\ loading' = setLoading(loading, catchFirestoreError.dispatches)
              /\ signOuts' = signOuts + 1
              /\ UNCHANGED userDomainsDoc
    /\ UNCHANGED <<registered, profiles, signedIn>>
    /\ UNCHANGED notOfCreateUser

\* Actions.js 359-364: the signOut of a logOut settles
signOutSettles ==
  \E outcome \in {"resolved", "rejected"} :
    /\ signOuts > 0
    /\ signOuts' = signOuts - 1
    /\ signedIn' = (signedIn /\ outcome = "rejected")
    /\ loading' = setLoading(loading, IF outcome = "resolved" THEN stopLoading
                                      ELSE alertAuthError)
    /\ UNCHANGED <<registered, userDomainsDoc, profiles, deleteRequests, createUserCalls>>
    /\ UNCHANGED notOfCreateUser

RegisterNext ==
  \/ callCreateUser
  \/ getUserSettles
  \/ runTransactionSettles
  \/ myUserDataSetSettles
  \/ signInSettles
  \/ createUserWithEmailAndPasswordSettles
  \/ userDomainsSetSettles
  \/ signOutSettles

RegisterSpec == AccountInit /\ [][RegisterNext]_vars

\* the createUser calls whose transaction found the domain in the list
\* of the account (line 443)
AlreadyInUse ==
  {c \in DOMAIN createUserCalls : createUserCalls[c].threw = "auth/email-already-in-use"}

\* every call has returned and every signOut has settled
AllDone ==
  /\ \A c \in DOMAIN createUserCalls : createUserCalls[c].pc = "done"
  /\ signOuts = 0

\* C22: a createUser call for an email that has an account registered in
\* the same domain fails as email-already-in-use and leaves the account
\* alone: it writes no profile data, does not ask for the existing user to
\* be deleted, attempts no sign-in after the failure, and ends with the
\* user signed out.
C22_ExistingAccountIsLeftIntact ==
  \A c \in AlreadyInUse :
    /\ ~ createUserCalls[c].calledEditUserData
    /\ [existing |-> TRUE, domain |-> createUserCalls[c].domain] \notin deleteRequests
    /\ createUserCalls[c].signInAfter = "none"
    /\ AllDone => ~ signedIn

\* ------------------------------------------------------------------ C23
\* the domains a userDomains doc lists, the single domain of an older doc
\* taken as a list of one
Listed(doc) == {d \in Domains : includes(domainsOf(doc), d)}

\* the createUser calls that returned without any of their catches running
Succeeded ==
  {c \in DOMAIN createUserCalls :
     createUserCalls[c].pc = "done" /\ ~ createUserCalls[c].caught}

\* C23: after any sequence and interleaving of createUser calls the user's
\* userDomains doc lists each domain at most once, lists every domain whose
\* registration succeeded, and never loses a domain it listed before (the
\* single domain of an older doc included).
C23_DomainsAreKept ==
  /\ [](/\ \A i, j \in DOMAIN domainsOf(userDomainsDoc) :
             domainsOf(userDomainsDoc)[i] = domainsOf(userDomainsDoc)[j] => i = j
        /\ \A c \in Succeeded : createUserCalls[c].domain \in Listed(userDomainsDoc))
  /\ [][Listed(userDomainsDoc) \subseteq Listed(userDomainsDoc')]_vars

\* ------------------------------------------------------------------ C24
\* the user of getAuthData is signed in (line 890 reads auth().currentUser.uid)
DomainInit == AccountsAt(TRUE) /\ registered

\* Actions.js 743: !myDomainDoc.exists || (!domainData.domains && !domainData.domain)
hasNoDomain(doc) ==
  doc = null \/ ("domains" \notin DOMAIN doc /\ "domain" \notin DOMAIN doc)

\* Actions.js 749: domainData.domains ? domainData.domains[0] : domainData.domain
domainIdOf(domainData) ==
  IF "domains" \in DOMAIN domainData THEN domainData.domains[1] ELSE domainData.domain

\* what getAuthData leaves alone at every step but its last
notOfGetUserDomain ==
  <<now, orderSchedule, lunchSchedule, orders, querySnapshot, calledAt, ranGroupWalk,
    seenIndex, authDataLoaded, clockReads, homeVars, selectorVars, storeVars, mountVars,
    pending, lastCall, lastSettled, registered, userDomainsDoc, profiles, signedIn,
    createUserCalls>>

\* Actions.js 889-892, 739-741: getAuthData calls getUserDomain, which
\* dispatches startLoading and awaits the user's userDomains doc
callGetAuthData ==
  /\ authDataCall = null
  /\ signedIn
  /\ authDataCall' = [pc |-> "userDomains.doc.get", docArrived |-> FALSE,
                      domainId |-> undefined, deletion |-> "none", loggedOut |-> FALSE]
  /\ loading' = setLoading(loading, startLoading)
  /\ UNCHANGED <<dispatched, domain, deleteRequests, signOuts>>
  /\ UNCHANGED notOfGetUserDomain

\* Actions.js 741-750, 904-907: the doc arrives, or the get is rejected and
\* the catch of getAuthData alerts.  Without a domain deleteFailedUser(uid)
\* is called and awaited; with one, the doc of the domain is fetched.
userDomainsGetSettles ==
  \E outcome \in {"resolved", "rejected"} :
    /\ authDataCall # null /\ authDataCall.pc = "userDomains.doc.get"
    /\ IF outcome = "rejected"
         THEN /\ authDataCall' = [authDataCall EXCEPT !.pc = "threw"]
              /\ loading' = setLoading(loading, alertFirestoreError)
              /\ UNCHANGED deleteRequests
         ELSE IF hasNoDomain(userDomainsDoc)
           THEN /\ authDataCall' = [authDataCall EXCEPT !.pc = "deleteFailedUser",
                                                        !.docArrived = TRUE]
                /\ deleteRequests' =
                     deleteRequests \cup {[existing |-> TRUE, domain |-> undefined]}
                /\ UNCHANGED loading
           ELSE /\ authDataCall' = [authDataCall EXCEPT !.pc = "domains.doc.get",
                                                        !.docArrived = TRUE,
                                                        !.domainId = domainIdOf(userDomainsDoc)]
                /\ UNCHANGED <<deleteRequests, loading>>
    /\ UNCHANGED <<dispatched, domain, signOuts>>
    /\ UNCHANGED notOfGetUserDomain

\* Actions.js 744-746, 904-907: deleteFailedUser settles; when it resolves
\* logOut is started and the error is thrown; either way the catch of
\* getAuthData alerts and throws again
deleteFailedUserSettles ==
  \E outcome \in {"resolved", "rejected"} :
    /\ authDataCall # null /\ authDataCall.pc = "deleteFailedUser"
    /\ authDataCall' = [authDataCall EXCEPT !.pc = "threw", !.deletion = outcome,
                                            !.loggedOut = (outcome = "resolved")]
    /\ loading' = setLoading(loading,
         IF outcome = "resolved" THEN andThen(logOut, done(alertFirestoreError)).dispatches
         ELSE alertFirestoreError)
    /\ signOuts' = IF outcome = "resolved" THEN signOuts + 1 ELSE signOuts
    /\ UNCHANGED <<dispatched, domain, deleteRequests>>
    /\ UNCHANGED notOfGetUserDomain

\* Actions.js 750-753, 893-898: the doc of the domain arrives; SET_DOMAIN and
\* stopLoading are dispatched and getAuthData starts its four reads
domainsGetSettles ==
  \E outcome \in {"resolved", "rejected"} :
    /\ authDataCall # null /\ authDataCall.pc = "domains.doc.get"
    /\ IF outcome = "rejected"
         THEN /\ authDataCall' = [authDataCall EXCEPT !.pc = "threw"]
              /\ loading' = setLoading(loading, alertFirestoreError)
              /\ UNCHANGED <<dispatched, domain>>
         ELSE /\ authDataCall' = [authDataCall EXCEPT !.pc = "Promise.all"]
              /\ domain' = [id |-> authDataCall.domainId]
              /\ dispatched' = dispatched \cup {"SET_DOMAIN"}
              /\ loading' = setLoading(loading, stopLoading)
    /\ UNCHANGED <<deleteRequests, signOuts>>
    /\ UNCHANGED notOfGetUserDomain

\* Actions.js 893-907: the four reads settle; the orders, the user data, the
\* constants and the presets are dispatched, or the catch alerts
promiseAllSettles ==
  \E outcome \in {"resolved", "rejected"} :
    /\ authDataCall # null /\ authDataCall.pc = "Promise.all"
    /\ IF outcome = "rejected"
         THEN /\ authDataCall' = [authDataCall EXCEPT !.pc = "threw"]
              /\ loading' = setLoading(loading, alertFirestoreError)
              /\ UNCHANGED <<dispatched, orders, querySnapshot, calledAt, ranGroupWalk,
                             seenIndex, clockReads, authDataLoaded, user, lunchScheduleProp>>
         ELSE \E ordersSnapshot \in Snapshots, userData \in Users \ {null} :
              /\ authDataCall' = [authDataCall EXCEPT !.pc = "returned"]
              /\ dispatchUpdateOrders(ordersSnapshot, orderSchedule, lunchSchedule)
              /\ authDataLoaded' = TRUE
              /\ user' = userData
              /\ lunchScheduleProp' = propsAfter(lunchSchedule, userData)
              /\ dispatched' = dispatched \cup {"UPDATE_ORDERS", "UPDATE_USER_DATA",
                                                "UPDATE_CONSTANTS", "UPDATE_PRESETS"}
              /\ UNCHANGED loading
    /\ UNCHANGED <<now, orderSchedule, lunchSchedule, homeVars, storeVars, mountVars,
                   pending, lastCall, lastSettled, registered, userDomainsDoc, profiles,
                   signedIn, signOuts, deleteRequests, createUserCalls, domain>>

DomainNext ==
  \/ callGetAuthData
  \/ userDomainsGetSettles
  \/ deleteFailedUserSettles
  \/ domainsGetSettles
  \/ promiseAllSettles
  \/ signOutSettles

DomainSpec == DomainInit /\ [][DomainNext]_vars

\* getUserDomain has read the doc of the user
DocWasRead ==
  authDataCall # null /\ authDataCall.docArrived

\* what getAuthData dispatches after getUserDomain
AuthDataActions == {"UPDATE_ORDERS", "UPDATE_USER_DATA", "UPDATE_CONSTANTS", "UPDATE_PRESETS"}

\* the parts of C24 that hold whatever way deleteFailedUser settles
C24_DomainOrNothing ==
  /\ "SET_DOMAIN" \in dispatched =>
       /\ ~ hasNoDomain(userDomainsDoc)
       /\ domain = [id |-> Head(domainsOf(userDomainsDoc))]
  /\ (DocWasRead /\ hasNoDomain(userDomainsDoc)) =>
       /\ [existing |-> TRUE, domain |-> undefined] \in deleteRequests
       /\ authDataCall.pc \in {"deleteFailedUser", "threw"}
       /\ dispatched = {}
       /\ domain = null
  /\ (authDataCall # null /\ authDataCall.pc = "threw") => dispatched \cap AuthDataActions = {}

\* C24 as stated: getUserDomain dispatches SET_DOMAIN for the first entry of
\* the user's domains list, or for the single domain of an older doc; for a
\* user with no userDomains doc or neither field it deletes the failed
\* user, logs out and throws, never dispatches SET_DOMAIN, and getAuthData
\* then dispatches no orders, user data, constants or presets.
C24_AsStated ==
  /\ C24_DomainOrNothing
  /\ (DocWasRead /\ hasNoDomain(userDomainsDoc) /\ authDataCall.pc = "threw") =>
       authDataCall.loggedOut

\* what the code does instead: logOut is started only when deleteFailedUser
\* resolved; when it is rejected the error goes to the catch of getAuthData
\* and the user stays signed in
C24_LogsOutWhenDeleted ==
  /\ C24_DomainOrNothing
  /\ (DocWasRead /\ hasNoDomain(userDomainsDoc) /\ authDataCall.pc = "threw") =>
       /\ authDataCall.loggedOut <=> authDataCall.deletion = "resolved"
       /\ (~ authDataCall.loggedOut /\ signOuts = 0) => signedIn

====
